---- MODULE Spec2Model ----
(***************************************************************************)
(* The parallel "model factory" dispatch of the notebook                   *)
(* ai_accelerator_modelInsights_streamlit_v1.ipynb: a ThreadPoolExecutor   *)
(* of max_workers threads runs thread_function(project, start_time) once   *)
(* per project of project_list, and the dispatching thread reports the     *)
(* futures in the order as_completed yields them.                          *)
(*                                                                         *)
(* Threads: the dispatching (main) thread, whose position is pc, and the   *)
(* pool's worker threads. The worker threads run the same loop and are     *)
(* interchangeable: numThreads of them have been spawned, numExited have   *)
(* returned, unit[k] is the position of the thread running the work item   *)
(* of future k, and the remaining threads wait in work_queue.get().        *)
(* Whether a project's remote calls return or raise is decided by the      *)
(* remote platform when the call is made; how long each call takes is left *)
(* to the interleaving with Tick.                                          *)
(***************************************************************************)
EXTENDS Integers, Sequences, FiniteSets, TLC

\* ---- bounds of the model ------------------------------------------------
MaxJobs == 2
MaxWorkers == 2
MaxTime == 2

\* ---- vocabulary ---------------------------------------------------------
ProjectNames == <<"P1", "P2", "P3", "P4", "P5", "P6">>

\* The errors of the remote platform: analyze_and_model may raise the first,
\* wait_for_autopilot either of the other two.
StartErrors == {"RemoteSubmissionError"}
WaitErrors == {"RemoteExecutionError", "RemoteTimeoutError"}

Sentinel == 0

VARIABLES
    max_workers,    \* the max_workers argument of ThreadPoolExecutor
    project_list,   \* the sequence of projects to train
    duration,       \* the time the platform takes to train one project, where
                    \*   it is taken to be the same for all (UniformSpec); 0 and
                    \*   unused elsewhere
    behaviour,      \* position in project_list -> what the platform does with
                    \*   the project: "none", or the error that its
                    \*   analyze_and_model or wait_for_autopilot raises, where
                    \*   that is fixed beforehand (BehaviourSpec); <<>> and
                    \*   unused elsewhere
    pc,             \* position of the dispatching thread
    escaped,        \* the exception that left the dispatch cell, or "none"
    allFutures,     \* future -> project (futures are numbered as created)
    workItem,       \* future -> [project, start_time], the arguments that
                    \*   submit was given for thread_function
    fstate,         \* future -> "PENDING" | "RUNNING" | "FINISHED"
    foutcome,       \* future -> [ok, value, exc] once FINISHED
    workQueue,      \* the executor's FIFO work queue (futures, Sentinel)
    numThreads,     \* worker threads spawned so far (len(executor._threads))
    numExited,      \* worker threads that have returned from _worker
    unit,           \* future -> "queued" | "taken" | "start" | "wait" | "release" | "done":
                    \*   where the work item of the future is in a worker's hands
    idleSem,        \* the executor's _idle_semaphore
    finishedSet,    \* as_completed: futures found finished, not yet yielded
    pendingSet,     \* as_completed: futures not yet yielded by the waiter loop
    waiterInstalled,\* as_completed has installed its waiter on the futures
    waiterFinished, \* the waiter's finished_futures, in completion order
    output,         \* the lines printed by the collecting loop
    now,            \* wall clock
    beginTime,      \* future -> clock when thread_function was entered
    endTime,        \* future -> clock when wait_for_autopilot returned
    completed,      \* the finished futures that as_completed has not yielded
                    \*   yet, in the order in which they finished
    calls,          \* future -> [start, wait]: how often analyze_and_model and
                    \*   wait_for_autopilot have been invoked on its project
    \* the RSS notebook, step "Make AI catalog dataset"
    article_text,   \* the text of the article fetched from the feed
    cnn_article_txt,\* content of the file cnn_article.txt, or Absent
    cnn_article_zip,\* members of the archive cnn_article.zip, or Absent
    catalog,        \* the datasets of the AI catalog: the archives uploaded
    cnn_dataset_id, \* id of the dataset the step created last, 0 if none
    rssPc,          \* position in the step
    rssEscaped,     \* the exception that ended the step, or "none"
    rssRuns         \* how often the step has been run

rssVars == <<article_text, cnn_article_txt, cnn_article_zip, catalog,
             cnn_dataset_id, rssPc, rssEscaped, rssRuns>>

vars == <<rssVars, max_workers, project_list, duration, behaviour, pc, escaped, allFutures,
          workItem, fstate, foutcome, workQueue, numThreads, numExited,
          unit, idleSem, finishedSet, pendingSet, waiterInstalled,
          waiterFinished, output, now, beginTime, endTime, completed, calls>>

\* What no step of the dispatch changes: its configuration, and the files
\* and variables of the RSS notebook.
configVars == <<max_workers, project_list, duration, behaviour, rssVars>>
mainVars == <<pc, escaped, allFutures, workItem, finishedSet, pendingSet,
              waiterInstalled, output>>
poolVars == <<numThreads, numExited>>
ghostVars == <<beginTime, endTime, completed, calls>>
\* What no step of the RSS notebook changes.
dispatchVars == <<max_workers, project_list, duration, behaviour, mainVars,
                  poolVars, ghostVars, fstate, foutcome, workQueue, unit,
                  idleSem, waiterFinished, now>>

\* ---- helpers ------------------------------------------------------------
NumJobs == Len(project_list)
Futures == 1..Len(allFutures)
Range(s) == {s[i] : i \in 1..Len(s)}
Projects == Range(project_list)

\* Futures whose work item a worker thread is running, and the number of
\* threads blocked in work_queue.get().
Busy == {k \in Futures : unit[k] \in {"taken", "start", "wait", "release"}}
NumWaiting == numThreads - numExited - Cardinality(Busy)

Without(s, x) == SelectSeq(s, LAMBDA y : y # x)

NoOutcome == [ok |-> FALSE, value |-> 0, exc |-> "none"]
Success(v) == [ok |-> TRUE, value |-> v, exc |-> "none"]
Failure(e) == [ok |-> FALSE, value |-> 0, exc |-> e]

\* ---- Init ---------------------------------------------------------------
\* ---- the RSS notebook: Make AI catalog dataset ------------------------------
\* The step writes the article to cnn_article.txt, packs that file into
\* cnn_article.zip and uploads the archive as a dataset. The notebook user
\* runs it, and may run it again, on whatever article the feed then leads
\* with, up to MaxRuns times; between two runs the user may remove the
\* archive.
MaxRuns == 3
ArticleTexts == {"article A", "article B"}
Absent == "absent"

RssFresh ==
    /\ article_text = Absent
    /\ cnn_article_txt = Absent
    /\ cnn_article_zip = Absent
    /\ catalog = <<>>
    /\ cnn_dataset_id = 0
    /\ rssPc = "fetch"
    /\ rssEscaped = "none"
    /\ rssRuns = 1

\* The cell before the step: article_text becomes the text of the article
\* the feed leads with.
FetchArticle ==
    /\ rssPc = "fetch"
    /\ article_text' \in ArticleTexts
    /\ rssPc' = "open_txt"
    /\ UNCHANGED <<cnn_article_txt, cnn_article_zip, catalog, cnn_dataset_id,
                   rssEscaped, rssRuns, dispatchVars>>

\* with open("cnn_article.txt", "w") as file: file.write(article_text)
\* Mode "w" creates the file or truncates the one that is there.
WriteArticle ==
    /\ rssPc = "open_txt"
    /\ cnn_article_txt' = article_text
    /\ rssPc' = "open_zip"
    /\ UNCHANGED <<article_text, cnn_article_zip, catalog, cnn_dataset_id,
                   rssEscaped, rssRuns, dispatchVars>>

\* zipfile.ZipFile("cnn_article.zip", "x", ...): mode "x" creates the
\* archive exclusively and raises FileExistsError when the file is there.
\* (mutant: mode "w", which truncates the archive that is there)
OpenArchiveTruncating ==
    /\ rssPc = "open_zip"
    /\ cnn_article_zip' = <<>>
    /\ rssPc' = "zip_write"
    /\ UNCHANGED <<article_text, cnn_article_txt, catalog, cnn_dataset_id,
                   rssEscaped, rssRuns, dispatchVars>>
OpenArchive ==
    /\ rssPc = "open_zip"
    /\ IF cnn_article_zip = Absent
         THEN /\ cnn_article_zip' = <<>>
              /\ rssPc' = "zip_write"
              /\ UNCHANGED rssEscaped
         ELSE /\ rssEscaped' = "FileExistsError"
              /\ rssPc' = "raised"
              /\ UNCHANGED cnn_article_zip
    /\ UNCHANGED <<article_text, cnn_article_txt, catalog, cnn_dataset_id,
                   rssRuns, dispatchVars>>

\* zip_file.write("cnn_article.txt"), and the archive is closed.
ZipWrite ==
    /\ rssPc = "zip_write"
    /\ cnn_article_zip' = Append(cnn_article_zip, cnn_article_txt)
    /\ rssPc' = "upload"
    /\ UNCHANGED <<article_text, cnn_article_txt, catalog, cnn_dataset_id,
                   rssEscaped, rssRuns, dispatchVars>>

\* cnn_dataset = ds.upload("cnn_article.zip"); cnn_dataset_id = cnn_dataset.id
\* The upload creates a dataset, or the platform refuses it.
Upload ==
    /\ rssPc = "upload"
    /\ \/ /\ catalog' = Append(catalog, cnn_article_zip)
          /\ cnn_dataset_id' = Len(catalog) + 1
          /\ rssPc' = "done"
          /\ UNCHANGED rssEscaped
       \/ /\ rssEscaped' = "ClientError"
          /\ rssPc' = "raised"
          /\ UNCHANGED <<catalog, cnn_dataset_id>>
    /\ UNCHANGED <<article_text, cnn_article_txt, cnn_article_zip, rssRuns,
                   dispatchVars>>

\* The user runs the notebook again from the cell that fetches the article.
RunAgain ==
    /\ rssPc \in {"done", "raised"}
    /\ rssRuns < MaxRuns
    /\ rssRuns' = rssRuns + 1
    /\ rssPc' = "fetch"
    /\ rssEscaped' = "none"
    /\ UNCHANGED <<article_text, cnn_article_txt, cnn_article_zip, catalog,
                   cnn_dataset_id, dispatchVars>>

\* The user removes cnn_article.zip between two runs.
RemoveArchive ==
    /\ rssPc \in {"done", "raised"}
    /\ cnn_article_zip # Absent
    /\ cnn_article_zip' = Absent
    /\ UNCHANGED <<article_text, cnn_article_txt, catalog, cnn_dataset_id,
                   rssPc, rssEscaped, rssRuns, dispatchVars>>

RssNext ==
    \/ FetchArticle
    \/ WriteArticle
    \/ OpenArchive
    \/ ZipWrite
    \/ Upload
    \/ RunAgain
    \/ RemoveArchive

\* The dispatch cell is about to run: no executor, no future, no output yet.
BeforeDispatch ==
    /\ pc = "construct"
    /\ escaped = "none"
    /\ allFutures = <<>>
    /\ workItem = <<>>
    /\ fstate = <<>>
    /\ foutcome = <<>>
    /\ workQueue = <<>>
    /\ numThreads = 0
    /\ numExited = 0
    /\ unit = <<>>
    /\ idleSem = 0
    /\ finishedSet = {}
    /\ pendingSet = {}
    /\ waiterInstalled = FALSE
    /\ waiterFinished = <<>>
    /\ output = <<>>
    /\ now = 0
    /\ beginTime = <<>>
    /\ endTime = <<>>
    /\ completed = <<>>
    /\ calls = <<>>

Init ==
    /\ max_workers \in 0..MaxWorkers
    /\ \E n \in 0..MaxJobs : project_list = SubSeq(ProjectNames, 1, n)
    /\ duration = 0
    /\ behaviour = <<>>
    /\ BeforeDispatch
    /\ RssFresh

\* The RSS notebook is run in a session of its own, with no dispatch.
RssInit ==
    /\ max_workers = 0
    /\ project_list = <<>>
    /\ duration = 0
    /\ behaviour = <<>>
    /\ BeforeDispatch
    /\ RssFresh

RssSpec == RssInit /\ [][RssNext]_vars

\* ---- the dispatching thread ----------------------------------------------

\* f.ThreadPoolExecutor(max_workers=...): the constructor rejects
\* max_workers <= 0 with ValueError before the with block is entered.
\* (mutants: a check that lets 0 through; a check that rejects 1)
ValidMaxWorkersOffByOne(n) == n >= 0
ValidMaxWorkersStrict(n) == n > 1
ValidMaxWorkers(n) == n > 0

Construct ==
    /\ pc = "construct"
    /\ IF ValidMaxWorkers(max_workers)
         THEN pc' = "submit" /\ escaped' = escaped
         ELSE pc' = "raised" /\ escaped' = "ValueError"
    /\ UNCHANGED <<configVars, allFutures, workItem, fstate, foutcome,
                   workQueue, poolVars, unit, idleSem, finishedSet, pendingSet,
                   waiterInstalled, waiterFinished, output, now, ghostVars>>


\* executor._adjust_thread_count: a new worker thread is spawned only while
\* fewer than max_workers threads exist.
\* (mutant: one thread too many)
BelowMaxWorkersOneLess(n, w) == n + 1 < w
BelowMaxWorkersOffByOne(n, w) == n <= w
BelowMaxWorkers(n, w) == n < w

\* executor.submit(thread_function, pr, datetime.datetime.now()) for the next
\* pr of project_list: the clock is read by the dispatching thread, the work
\* item is queued, and a thread is spawned unless an idle one is signalled
\* or max_workers threads exist. submit never blocks.
Submit ==
    /\ pc = "submit"
    /\ Len(allFutures) < NumJobs
    /\ LET k == Len(allFutures) + 1
           pr == project_list[k]
       IN /\ allFutures' = Append(allFutures, pr)
          /\ workItem' = Append(workItem, [project |-> pr, start_time |-> now])
          /\ fstate' = Append(fstate, "PENDING")
          /\ foutcome' = Append(foutcome, NoOutcome)
          /\ beginTime' = Append(beginTime, -1)
          /\ endTime' = Append(endTime, -1)
          /\ calls' = Append(calls, [start |-> 0, wait |-> 0])
          /\ UNCHANGED completed
          /\ unit' = Append(unit, "queued")
          /\ workQueue' = Append(workQueue, k)
    /\ IF idleSem > 0
         THEN idleSem' = idleSem - 1 /\ numThreads' = numThreads
         ELSE /\ idleSem' = idleSem
              /\ numThreads' = IF BelowMaxWorkers(numThreads, max_workers)
                                 THEN numThreads + 1 ELSE numThreads
    /\ UNCHANGED <<configVars, pc, escaped, numExited, finishedSet, pendingSet,
                   waiterInstalled, waiterFinished, output, now>>

\* (mutant: a running future counts as finished)
IsFinishedOrRunning(k) == fstate[k] \in {"RUNNING", "FINISHED"}
IsFinished(k) == fstate[k] = "FINISHED"

\* f.as_completed(allFutures), up to its first yield: under the futures'
\* locks it splits them into those already finished and those pending, and
\* installs its waiter on all of them.
\* (mutant: the loop begins once every future is finished)
AsCompletedBarrier ==
    /\ pc = "submit"
    /\ Len(allFutures) = NumJobs
    /\ \A k \in Futures : IsFinished(k)
    /\ finishedSet' = {k \in Futures : IsFinished(k)}
    /\ pendingSet' = {k \in Futures : ~IsFinished(k)}
    /\ waiterInstalled' = TRUE
    /\ pc' = "collect"
    /\ UNCHANGED <<configVars, escaped, allFutures, workItem, fstate,
                   foutcome, workQueue, poolVars, unit, idleSem, waiterFinished,
                   output, now, ghostVars>>
AsCompleted ==
    /\ pc = "submit"
    /\ Len(allFutures) = NumJobs
    /\ finishedSet' = {k \in Futures : IsFinished(k)}
    /\ pendingSet' = {k \in Futures : ~IsFinished(k)}
    /\ waiterInstalled' = TRUE
    /\ pc' = "collect"
    /\ UNCHANGED <<configVars, escaped, allFutures, workItem, fstate,
                   foutcome, workQueue, poolVars, unit, idleSem, waiterFinished,
                   output, now, ghostVars>>

\* pr = allFutures[future]
\* (mutant: the project at the position of the result in completion order)
JobOfPositional(future) == project_list[Len(output) + 1]
JobOf(future) == allFutures[future]

\* except Exception as exc: the errors of the remote calls are Exception
\* subclasses, so the handler catches each of them.
\* (mutant: a handler for one error class only)
CaughtByHandlerNarrow(e) == e \in {"RemoteExecutionError"}
CaughtByHandler(e) == e \in StartErrors \cup WaitErrors

\* The line printed for a future: "finished in <elapsed_time>" when
\* future.result() returns, "generated an exception: <exc>" when it raises.
\* (mutant: the line of the else branch is printed for every future)
ReportLineNoExcept(pr, outcome) ==
    [job |-> pr, kind |-> "finished", elapsed |-> outcome.value, exc |-> "none"]
ReportLine(pr, outcome) ==
    IF outcome.ok
      THEN [job |-> pr, kind |-> "finished", elapsed |-> outcome.value, exc |-> "none"]
      ELSE [job |-> pr, kind |-> "exception", elapsed |-> 0, exc |-> outcome.exc]

\* The body of the for loop for the future as_completed yields.
\* (mutant: the loop is left at the first failed job)
ReportFailFast(future) ==
    LET pr == JobOf(future)
        outcome == foutcome[future]
    IN /\ output' = Append(output, ReportLine(pr, outcome))
       /\ pc' = IF outcome.ok THEN pc ELSE "unwind"
       /\ UNCHANGED escaped
Report(future) ==
    LET pr == JobOf(future)
        outcome == foutcome[future]
    IN IF outcome.ok \/ CaughtByHandler(outcome.exc)
         THEN /\ output' = Append(output, ReportLine(pr, outcome))
              /\ UNCHANGED <<pc, escaped>>
         ELSE /\ escaped' = outcome.exc
              /\ pc' = "unwind"
              /\ UNCHANGED output

\* One iteration over a future that was already finished when as_completed
\* began: these are yielded first, popped from a set in no particular order.
CollectFinished ==
    /\ pc = "collect"
    /\ \E future \in finishedSet :
         /\ finishedSet' = finishedSet \ {future}
         /\ completed' = Without(completed, future)
         /\ Report(future)
    /\ UNCHANGED <<configVars, allFutures, workItem, fstate, foutcome,
                   workQueue, poolVars, unit, idleSem, pendingSet,
                   waiterInstalled, waiterFinished, now, beginTime, endTime,
                   calls>>

\* One iteration over a future that completed later: the waiter hands them
\* over in the order the workers added them.
CollectCompleted ==
    /\ pc = "collect"
    /\ finishedSet = {}
    /\ waiterFinished # <<>>
    /\ LET future == Head(waiterFinished)
       IN /\ waiterFinished' = Tail(waiterFinished)
          /\ pendingSet' = pendingSet \ {future}
          /\ completed' = Without(completed, future)
          /\ Report(future)
    /\ UNCHANGED <<configVars, allFutures, workItem, fstate, foutcome,
                   workQueue, poolVars, unit, idleSem, finishedSet,
                   waiterInstalled, now, beginTime, endTime, calls>>

\* as_completed is exhausted when it has yielded the futures it found
\* finished and no future is pending any more.
\* (mutant: only the futures found finished are iterated)
ExhaustedEarly == finishedSet = {}
Exhausted == finishedSet = {} /\ pendingSet = {}

\* Leaving the with block: executor.__exit__ calls shutdown(wait=True), which
\* queues the None sentinel behind the work items still queued and then joins
\* the threads. The block is left when as_completed is exhausted, or when an
\* exception left the loop body.
\* (mutant: shutdown(cancel_futures=True) drops the queued work items)
ShutdownCancelFutures ==
    /\ \/ pc = "collect" /\ Exhausted
       \/ pc = "unwind"
    /\ workQueue' = <<Sentinel>>
    /\ pc' = "join"
    /\ UNCHANGED <<configVars, escaped, allFutures, workItem, fstate,
                   foutcome, poolVars, unit, idleSem, finishedSet, pendingSet,
                   waiterInstalled, waiterFinished, output, now, ghostVars>>
Shutdown ==
    /\ \/ pc = "collect" /\ Exhausted
       \/ pc = "unwind"
    /\ workQueue' = Append(workQueue, Sentinel)
    /\ pc' = "join"
    /\ UNCHANGED <<configVars, escaped, allFutures, workItem, fstate,
                   foutcome, poolVars, unit, idleSem, finishedSet, pendingSet,
                   waiterInstalled, waiterFinished, output, now, ghostVars>>

\* (mutant: shutdown(wait=False))
AllThreadsExitedNoWait == TRUE
AllThreadsExited == numExited = numThreads

\* t.join() for every thread of the pool; then the cell is done, or the
\* exception that left the loop propagates.
Join ==
    /\ pc = "join"
    /\ AllThreadsExited
    /\ pc' = IF escaped = "none" THEN "returned" ELSE "raised"
    /\ UNCHANGED <<configVars, escaped, allFutures, workItem, fstate,
                   foutcome, workQueue, poolVars, unit, idleSem, finishedSet,
                   pendingSet, waiterInstalled, waiterFinished, output, now,
                   ghostVars>>

\* ---- the worker threads --------------------------------------------------

\* _worker: work_queue.get() hands the oldest work item to one waiting
\* thread.
\* (mutant: the newest work item is handed out)
\* (mutant: the work item is read and left in the queue)
WorkerGetPeek ==
    /\ NumWaiting > 0
    /\ workQueue # <<>>
    /\ Head(workQueue) # Sentinel
    /\ LET k == Head(workQueue)
       IN /\ workQueue' = workQueue
          /\ unit' = [unit EXCEPT ![k] = "taken"]
    /\ UNCHANGED <<configVars, mainVars, poolVars, fstate, foutcome, idleSem,
                   waiterFinished, now, ghostVars>>
WorkerGetLifo ==
    /\ NumWaiting > 0
    /\ workQueue # <<>>
    /\ workQueue[Len(workQueue)] # Sentinel
    /\ LET k == workQueue[Len(workQueue)]
       IN /\ workQueue' = SubSeq(workQueue, 1, Len(workQueue) - 1)
          /\ unit' = [unit EXCEPT ![k] = "taken"]
    /\ UNCHANGED <<configVars, mainVars, poolVars, fstate, foutcome, idleSem,
                   waiterFinished, now, ghostVars>>
WorkerGet ==
    /\ NumWaiting > 0
    /\ workQueue # <<>>
    /\ Head(workQueue) # Sentinel
    /\ LET k == Head(workQueue)
       IN /\ workQueue' = Tail(workQueue)
          /\ unit' = [unit EXCEPT ![k] = "taken"]
    /\ UNCHANGED <<configVars, mainVars, poolVars, fstate, foutcome, idleSem,
                   waiterFinished, now, ghostVars>>

\* The thread that took the work item calls work_item.run(), which marks
\* the future RUNNING and enters thread_function. Threads that hold a work
\* item get there in any order.
WorkItemRun(k) ==
    /\ unit[k] = "taken"
    /\ unit' = [unit EXCEPT ![k] = "start"]
    /\ fstate' = [fstate EXCEPT ![k] = "RUNNING"]
    /\ beginTime' = [beginTime EXCEPT ![k] = now]
    /\ calls' = [calls EXCEPT ![k].start = @ + 1]
    /\ UNCHANGED <<configVars, mainVars, workQueue, poolVars, foutcome,
                   idleSem, waiterFinished, now, endTime, completed>>

\* Future.set_result / set_exception: the future becomes FINISHED with its
\* outcome and is added to the waiter's finished_futures if as_completed has
\* installed one.
\* (mutant: the waiter is not notified)
CompleteNoNotify(k, outcome) ==
    /\ fstate' = [fstate EXCEPT ![k] = "FINISHED"]
    /\ foutcome' = [foutcome EXCEPT ![k] = outcome]
    /\ waiterFinished' = waiterFinished
    /\ unit' = [unit EXCEPT ![k] = "release"]
    /\ completed' = Append(completed, k)
\* (mutant: the waiter puts the newly finished future first)
CompleteNotifyFirst(k, outcome) ==
    /\ fstate' = [fstate EXCEPT ![k] = "FINISHED"]
    /\ foutcome' = [foutcome EXCEPT ![k] = outcome]
    /\ waiterFinished' = IF waiterInstalled THEN <<k>> \o waiterFinished
                                            ELSE waiterFinished
    /\ unit' = [unit EXCEPT ![k] = "release"]
    /\ completed' = Append(completed, k)
Complete(k, outcome) ==
    /\ fstate' = [fstate EXCEPT ![k] = "FINISHED"]
    /\ foutcome' = [foutcome EXCEPT ![k] = outcome]
    /\ waiterFinished' = IF waiterInstalled THEN Append(waiterFinished, k)
                                            ELSE waiterFinished
    /\ unit' = [unit EXCEPT ![k] = "release"]
    /\ completed' = Append(completed, k)

\* project.analyze_and_model(...): returns once the remote work is accepted,
\* or raises.
AnalyzeAndModel(k) ==
    /\ unit[k] = "start"
    /\ \/ /\ \E e \in StartErrors : Complete(k, Failure(e))
          /\ UNCHANGED calls
       \/ /\ unit' = [unit EXCEPT ![k] = "wait"]
          /\ calls' = [calls EXCEPT ![k].wait = @ + 1]
          /\ UNCHANGED <<fstate, foutcome, waiterFinished, completed>>
    /\ UNCHANGED <<configVars, mainVars, workQueue, poolVars, idleSem, now,
                   beginTime, endTime>>

\* return datetime.datetime.now() - start_time
\* (mutant: the operands exchanged)
ElapsedTimeSwapped(t, st) == st - t
ElapsedTime(t, st) == t - st

\* project.wait_for_autopilot(...) returns or raises; on return the unit
\* returns the elapsed time.
WaitForAutopilot(k) ==
    /\ unit[k] = "wait"
    /\ \/ /\ Complete(k, Success(ElapsedTime(now, workItem[k].start_time)))
          /\ endTime' = [endTime EXCEPT ![k] = now]
       \/ /\ \E e \in WaitErrors : Complete(k, Failure(e))
          /\ UNCHANGED endTime
    /\ UNCHANGED <<configVars, mainVars, workQueue, poolVars, idleSem, now,
                   beginTime, calls>>

\* _worker after work_item.run(): signal an idle thread and loop.
WorkerRelease(k) ==
    /\ unit[k] = "release"
    /\ idleSem' = idleSem + 1
    /\ unit' = [unit EXCEPT ![k] = "done"]
    /\ UNCHANGED <<configVars, mainVars, poolVars, fstate, foutcome, workQueue,
                   waiterFinished, now, ghostVars>>

\* _worker on the None sentinel: put it back for the other threads and
\* return.
WorkerExit ==
    /\ NumWaiting > 0
    /\ workQueue # <<>>
    /\ Head(workQueue) = Sentinel
    /\ numExited' = numExited + 1
    /\ UNCHANGED <<configVars, mainVars, numThreads, fstate, foutcome,
                   workQueue, unit, idleSem, waiterFinished, now, ghostVars>>

\* ---- time ----------------------------------------------------------------
\* The clock advances at any moment until the cell is done.
Tick ==
    /\ now < MaxTime
    /\ pc \notin {"returned", "raised"}
    /\ now' = now + 1
    /\ UNCHANGED <<configVars, mainVars, fstate, foutcome, workQueue, poolVars,
                   unit, idleSem, waiterFinished, ghostVars>>

\* ---- specification -------------------------------------------------------
Next ==
    \/ Construct
    \/ Submit
    \/ AsCompleted
    \/ CollectFinished
    \/ CollectCompleted
    \/ Shutdown
    \/ Join
    \/ WorkerGet
    \/ \E k \in Futures : WorkItemRun(k)
    \/ \E k \in Futures : AnalyzeAndModel(k)
    \/ \E k \in Futures : WaitForAutopilot(k)
    \/ \E k \in Futures : WorkerRelease(k)
    \/ WorkerExit
    \/ Tick

Spec == Init /\ [][Next]_vars

\* ---- the state of a job --------------------------------------------------
\* PENDING until a worker picks its unit up, STARTED while thread_function
\* runs, SUCCEEDED or FAILED when the unit has returned or raised.
FutureOf(pr) == CHOOSE k \in Futures : allFutures[k] = pr
Submitted(pr) == \E k \in Futures : allFutures[k] = pr
JobState(pr) ==
    IF ~Submitted(pr) THEN "PENDING"
    ELSE LET k == FutureOf(pr)
         IN CASE fstate[k] = "PENDING" -> "PENDING"
              [] fstate[k] = "RUNNING" -> "STARTED"
              [] fstate[k] = "FINISHED" /\ foutcome[k].ok -> "SUCCEEDED"
              [] OTHER -> "FAILED"

TypeOK ==
    /\ max_workers \in Nat
    /\ duration \in Nat
    /\ pc \in {"construct", "submit", "collect", "unwind", "join", "returned", "raised"}
    /\ now \in Nat
    /\ Len(allFutures) <= NumJobs
    /\ numExited <= numThreads
    /\ NumWaiting >= 0
    /\ \A k \in Futures :
         unit[k] \in {"queued", "taken", "start", "wait", "release", "done"}
    /\ \A k \in Futures : fstate[k] \in {"PENDING", "RUNNING", "FINISHED"}

\* ---- specification with fairness ------------------------------------------
\* Tick changes only the clock, and no guard of another action reads the
\* clock, so the order of events is studied without it. Fairness: the
\* dispatching thread and every worker thread keep being scheduled, and
\* every remote call eventually returns or raises.
UntimedNext ==
    \/ Construct
    \/ Submit
    \/ AsCompleted
    \/ CollectFinished
    \/ CollectCompleted
    \/ Shutdown
    \/ Join
    \/ WorkerGet
    \/ \E k \in Futures : WorkItemRun(k)
    \/ \E k \in Futures : AnalyzeAndModel(k)
    \/ \E k \in Futures : WaitForAutopilot(k)
    \/ \E k \in Futures : WorkerRelease(k)
    \/ WorkerExit

UntimedSpec == Init /\ [][UntimedNext]_vars

MainStep ==
    \/ Construct
    \/ Submit
    \/ AsCompleted
    \/ CollectFinished
    \/ CollectCompleted
    \/ Shutdown
    \/ Join

UnitStep(k) ==
    /\ k \in Futures
    /\ \/ WorkItemRun(k)
       \/ AnalyzeAndModel(k)
       \/ WaitForAutopilot(k)
       \/ WorkerRelease(k)

FairSpec ==
    /\ Init
    /\ [][UntimedNext]_vars
    /\ WF_vars(MainStep)
    /\ WF_vars(WorkerGet)
    /\ WF_vars(WorkerExit)
    /\ \A k \in 1..MaxJobs : WF_vars(UnitStep(k))

\* ---- specification with a fair collector ------------------------------------
\* Only the dispatching thread is sure to keep running: a worker may stay in
\* a remote call for ever.
CollectorFairSpec ==
    /\ Init
    /\ [][UntimedNext]_vars
    /\ WF_vars(MainStep)

\* ---- specification with fair worker threads ---------------------------------
\* The worker threads keep being scheduled for their own statements; a
\* remote call may last for ever and the dispatching thread may pause.
LocalUnitStep(k) ==
    /\ k \in Futures
    /\ \/ WorkItemRun(k)
       \/ WorkerRelease(k)

WorkerFairSpec ==
    /\ Init
    /\ [][UntimedNext]_vars
    /\ WF_vars(WorkerGet)
    /\ \A k \in 1..MaxJobs : WF_vars(LocalUnitStep(k))

\* ---- specification with instantaneous local steps --------------------------
\* The remote calls last minutes, the Python statements around them
\* microseconds. TimedSpec keeps only the behaviours of Spec in which the
\* clock advances while no local step can be taken: every thread is inside a
\* remote call or blocked (in work_queue.get(), as_completed or join).
LocalStepEnabled ==
    \/ pc \in {"construct", "submit", "unwind"}
    \/ pc = "collect" /\ (finishedSet # {} \/ waiterFinished # <<>> \/ Exhausted)
    \/ pc = "join" /\ AllThreadsExited
    \/ NumWaiting > 0 /\ workQueue # <<>>
    \/ \E k \in Futures : unit[k] \in {"taken", "release"}

InRemoteCall == {k \in Futures : unit[k] \in {"start", "wait"}}

UrgentTick ==
    /\ ~LocalStepEnabled
    /\ InRemoteCall # {}
    /\ Tick

TimedNext == UntimedNext \/ UrgentTick

TimedSpec == Init /\ [][TimedNext]_vars

\* ---- specification with jobs of one duration -------------------------------
\* The notebook's experiment: range(1, 6) projects on THREAD_POOL_WORKERS
\* threads, or on one thread for the sequential comparison. Every training
\* takes the same time, analyze_and_model takes none and never raises, and
\* the Python statements take none: the clock advances only when every thread
\* is blocked and no training is due to end.
THREAD_POOL_WORKERS == 5
RangeStart == 1
RangeStop == 6
MaxDuration == 2

UniformInit ==
    /\ max_workers \in {1, THREAD_POOL_WORKERS}
    /\ \E n \in 0..(RangeStop - RangeStart) :
          project_list = SubSeq(ProjectNames, 1, n)
    /\ duration \in 0..MaxDuration
    /\ behaviour = <<>>
    /\ BeforeDispatch
    /\ RssFresh

DueLate(k) == now >= beginTime[k] + duration + 1
Due(k) == now >= beginTime[k] + duration

UniformStart(k) ==
    /\ AnalyzeAndModel(k)
    /\ unit'[k] = "wait"

UniformWait(k) ==
    /\ Due(k)
    /\ WaitForAutopilot(k)
    /\ foutcome'[k].ok

UniformTick ==
    /\ ~LocalStepEnabled
    /\ \A k \in Futures : unit[k] # "start"
    /\ \E k \in Futures : unit[k] = "wait"
    /\ \A k \in Futures : unit[k] = "wait" => ~Due(k)
    /\ now' = now + 1
    /\ UNCHANGED <<configVars, mainVars, fstate, foutcome, workQueue, poolVars,
                   unit, idleSem, waiterFinished, ghostVars>>

UniformNext ==
    \/ Construct
    \/ Submit
    \/ AsCompleted
    \/ CollectFinished
    \/ CollectCompleted
    \/ Shutdown
    \/ Join
    \/ WorkerGet
    \/ WorkerExit
    \/ \E k \in Futures : WorkItemRun(k)
    \/ \E k \in Futures : UniformStart(k)
    \/ \E k \in Futures : UniformWait(k)
    \/ \E k \in Futures : WorkerRelease(k)
    \/ UniformTick

UniformSpec == UniformInit /\ [][UniformNext]_vars

\* ---- specification with a slow dispatching thread --------------------------
\* As TimedSpec, and the clock may also advance between two submissions, so
\* that the projects are submitted at different times: the dispatching
\* thread pauses while no worker thread has a local step to take.
WorkerStepEnabled ==
    \/ NumWaiting > 0 /\ workQueue # <<>>
    \/ \E k \in Futures : unit[k] \in {"taken", "release"}

SubmitTick ==
    /\ pc = "submit"
    /\ ~WorkerStepEnabled
    /\ Tick

SlowSubmitNext == TimedNext \/ SubmitTick

SlowSubmitSpec == Init /\ [][SlowSubmitNext]_vars

\* ---- specification with spare workers -------------------------------------
\* The pool may be larger than the job list by up to ExtraWorkers threads.
\* The clock plays no part in it.
ExtraWorkers == 1

CapacityInit ==
    /\ \E n \in 0..MaxJobs : project_list = SubSeq(ProjectNames, 1, n)
    /\ max_workers \in 0..(MaxJobs + ExtraWorkers)
    /\ duration = 0
    /\ behaviour = <<>>
    /\ BeforeDispatch
    /\ RssFresh

CapacitySpec == CapacityInit /\ [][UntimedNext]_vars

\* ---- specification with the behaviour of each job fixed beforehand ----------
\* What the platform does with a project does not depend on the dispatch:
\* both calls return, or analyze_and_model raises a given error, or
\* wait_for_autopilot does. The pool size, the interleaving and the order of
\* completion stay free.
Behaviours == {"none"} \cup StartErrors \cup WaitErrors

BehaviourInit ==
    /\ max_workers \in 0..MaxWorkers
    /\ \E n \in 0..MaxJobs :
          /\ project_list = SubSeq(ProjectNames, 1, n)
          /\ behaviour \in [1..n -> Behaviours]
    /\ duration = 0
    /\ BeforeDispatch
    /\ RssFresh

BehavedStart(k) ==
    /\ AnalyzeAndModel(k)
    /\ IF behaviour[k] \in StartErrors
         THEN foutcome'[k] = Failure(behaviour[k])
         ELSE unit'[k] = "wait"

BehavedWait(k) ==
    /\ WaitForAutopilot(k)
    /\ IF behaviour[k] \in WaitErrors
         THEN foutcome'[k] = Failure(behaviour[k])
         ELSE foutcome'[k].ok

BehaviourNext ==
    \/ Construct
    \/ Submit
    \/ AsCompleted
    \/ CollectFinished
    \/ CollectCompleted
    \/ Shutdown
    \/ Join
    \/ WorkerGet
    \/ WorkerExit
    \/ \E k \in Futures : WorkItemRun(k)
    \/ \E k \in Futures : BehavedStart(k)
    \/ \E k \in Futures : BehavedWait(k)
    \/ \E k \in Futures : WorkerRelease(k)

BehaviourSpec == BehaviourInit /\ [][BehaviourNext]_vars

\* ---- specification with an exception the handler does not catch ------------
\* except Exception does not catch a BaseException such as the
\* KeyboardInterrupt that reaches the dispatching thread while it iterates
\* as_completed: the exception leaves the loop and the with block unwinds.
\* The clock plays no part in it.
Interrupt ==
    /\ pc = "collect"
    /\ escaped' = "KeyboardInterrupt"
    /\ pc' = "unwind"
    /\ UNCHANGED <<configVars, allFutures, workItem, fstate, foutcome,
                   workQueue, poolVars, unit, idleSem, finishedSet, pendingSet,
                   waiterInstalled, waiterFinished, output, now, ghostVars>>

InterruptNext == UntimedNext \/ Interrupt

InterruptSpec == Init /\ [][InterruptNext]_vars

Interrupted == escaped = "KeyboardInterrupt"

\* ---- vocabulary of the properties ------------------------------------------
StartedJobs == {pr \in Projects : JobState(pr) = "STARTED"}
PendingJobs == {pr \in Projects : JobState(pr) = "PENDING"}
TerminalJobs == {pr \in Projects : JobState(pr) \in {"SUCCEEDED", "FAILED"}}
FailedFutures == {k \in Futures : fstate[k] = "FINISHED" /\ ~foutcome[k].ok}
SucceededFutures == {k \in Futures : fstate[k] = "FINISHED" /\ foutcome[k].ok}
LinesOf(pr) == {i \in 1..Len(output) : output[i].job = pr}
Done == pc \in {"returned", "raised"}
\* The future whose work item runs thread_function for project pr.
UnitOf(pr) == CHOOSE k \in Futures : workItem[k].project = pr
\* Project pr has been reported with the outcome of its own unit.
ReportedRight(k) ==
    /\ fstate[k] = "FINISHED"
    /\ \E i \in 1..Len(output) :
         output[i] = ReportLine(workItem[k].project, foutcome[k])

\* C1: at every moment of a dispatch with pool size W >= 1, at most W jobs
\* are STARTED (their unit picked up by a worker and not yet returned or
\* raised), whatever the interleaving, the durations and the failures.
C1_AtMostWStarted ==
    max_workers >= 1 => Cardinality(StartedJobs) <= max_workers

\* C1 witness: the pool is full (W jobs STARTED) while another submitted job
\* is still queued.
C1_Witness ==
    /\ max_workers >= 1
    /\ Cardinality(StartedJobs) = max_workers
    /\ \E k \in Futures : fstate[k] = "PENDING"

\* C2: no job ever has two result lines, and when a dispatch over a
\* non-empty job list with W >= 1 has finished, there are exactly len(jobs)
\* lines, one for every job.
C2_OneResultPerJob ==
    /\ \A pr \in Projects : Cardinality(LinesOf(pr)) <= 1
    /\ (pc = "returned" /\ NumJobs >= 1 /\ max_workers >= 1) =>
         /\ Len(output) = NumJobs
         /\ \A pr \in Projects : Cardinality(LinesOf(pr)) = 1

\* C2 witness: a finished dispatch of two jobs, reported in the reverse of
\* the submission order, one of them failed.
C2_Witness ==
    /\ pc = "returned"
    /\ NumJobs = 2
    /\ output[1].job = project_list[2]
    /\ FailedFutures # {}
    /\ SucceededFutures # {}

\* C3: under fair scheduling, with every remote call returning or raising,
\* every submitted job eventually reaches a terminal state and eventually
\* has its result reported, with a backlog and with failing jobs too.
C3_EveryJobReported ==
    \A k \in 1..MaxJobs :
        (k \in Futures) ~> (k \in Futures /\ ReportedRight(k))

\* C3 witness: a dispatch with more jobs than workers has finished with
\* every job reported, the first one as failed.
C3_Witness ==
    /\ pc = "returned"
    /\ NumJobs > max_workers
    /\ 1 \in FailedFutures
    /\ \A k \in Futures : ReportedRight(k)

\* C4: the step in which one job's unit raises changes nothing of any other
\* job (nothing is cancelled, the queue is kept), and when the dispatch is
\* over after some job failed, it has returned normally with every job
\* terminal and reported with its own outcome.
C4_FailureIsolated ==
    /\ [][\A k \in Futures :
            (fstate[k] # "FINISHED" /\ fstate'[k] = "FINISHED" /\ ~foutcome'[k].ok)
            => /\ workQueue' = workQueue
               /\ \A j \in Futures \ {k} :
                    /\ fstate'[j] = fstate[j]
                    /\ foutcome'[j] = foutcome[j]
                    /\ unit'[j] = unit[j]]_vars
    /\ []((Done /\ FailedFutures # {}) =>
            /\ pc = "returned"
            /\ Len(output) = NumJobs
            /\ \A k \in Futures : ReportedRight(k))

\* C4 witness: with one worker, the first job failed and the second job,
\* queued behind it, was still run and reported as a success.
C4_Witness ==
    /\ pc = "returned"
    /\ max_workers = 1
    /\ NumJobs = 2
    /\ 1 \in FailedFutures
    /\ 2 \in SucceededFutures
    /\ ReportedRight(2)

\* C5: when the dispatch has returned, every job is SUCCEEDED or FAILED,
\* none is PENDING or STARTED, and every worker thread of the pool has
\* returned (been joined), however many jobs failed.
C5_AllTerminalAtReturn ==
    pc = "returned" =>
        /\ Len(allFutures) = NumJobs
        /\ TerminalJobs = Projects
        /\ Busy = {}
        /\ numExited = numThreads

\* C5 witness: a dispatch of two jobs on two threads has returned and both
\* jobs failed.
C5_Witness ==
    /\ pc = "returned"
    /\ NumJobs = 2
    /\ numThreads = 2
    /\ FailedFutures = Futures

\* C6: every result line names the job whose own unit produced the reported
\* duration or error, in every completion order.
C6_Attribution ==
    \A i \in 1..Len(output) :
        LET pr == output[i].job
        IN /\ pr \in {workItem[k].project : k \in Futures}
           /\ fstate[UnitOf(pr)] = "FINISHED"
           /\ output[i] = ReportLine(pr, foutcome[UnitOf(pr)])

\* C6 witness: two lines reported against the submission order, one a
\* duration and one an error.
C6_Witness ==
    /\ Len(output) = 2
    /\ output[1].job = project_list[2]
    /\ output[1].kind = "finished"
    /\ output[2].kind = "exception"

\* C7: no error of a job's start() or wait() leaves the dispatch as an
\* exception: each kind of error ends up in the line of its job, and the
\* dispatch does not end by raising when max_workers is valid.
C7_NoJobErrorEscapes ==
    /\ escaped \notin (StartErrors \cup WaitErrors)
    /\ (pc \in {"unwind", "raised"}) => max_workers < 1
    /\ pc = "returned" =>
         \A k \in FailedFutures :
            \E i \in 1..Len(output) :
               /\ output[i].job = workItem[k].project
               /\ output[i].kind = "exception"
               /\ output[i].exc = foutcome[k].exc

\* C7 witness: a dispatch has returned after one job's start() and another
\* job's wait() raised, both errors reported as data.
C7_Witness ==
    /\ pc = "returned"
    /\ \E i, j \in 1..Len(output) :
         /\ output[i].exc \in StartErrors
         /\ output[j].exc \in WaitErrors

\* C8 as stated: with max_workers < 1 the dispatch fails with
\* DispatcherConfigError before anything is submitted or started.
C8_Original ==
    (max_workers < 1 /\ pc # "construct") =>
        /\ pc = "raised"
        /\ escaped = "DispatcherConfigError"
        /\ allFutures = <<>>
        /\ numThreads = 0

\* C8 as amended: with max_workers < 1 the dispatch fails synchronously with
\* the pool constructor's ValueError; nothing is ever submitted, no thread
\* is spawned and every job stays PENDING.
C8_ValueErrorBeforeSubmission ==
    max_workers < 1 =>
        /\ allFutures = <<>>
        /\ numThreads = 0
        /\ PendingJobs = Projects
        /\ output = <<>>
        /\ pc # "construct" => (pc = "raised" /\ escaped = "ValueError")

\* C8 witness: a dispatch of two jobs with max_workers = 0 has raised.
C8_Witness ==
    /\ max_workers = 0
    /\ NumJobs = 2
    /\ pc = "raised"
    /\ PendingJobs = Projects

C10_ElapsedIsUnitTime ==
    \A i \in 1..Len(output) :
        output[i].kind = "finished" =>
            LET k == UnitOf(output[i].job)
            IN output[i].elapsed = endTime[k] - beginTime[k]

\* C11: when an exception that the per-job handler does not catch leaves the
\* collecting loop, the pool is still released: by the time the exception
\* leaves the dispatch every worker thread has been joined and no job is
\* STARTED.
C11_ReleasedOnException ==
    (pc = "raised" /\ Interrupted) =>
        /\ numExited = numThreads
        /\ Busy = {}
        /\ StartedJobs = {}

\* C11 witness: the exception has left a dispatch of two jobs on two threads
\* that had reported nothing yet.
C11_Witness ==
    /\ pc = "raised"
    /\ Interrupted
    /\ NumJobs = 2
    /\ numThreads = 2
    /\ output = <<>>

\* Future k enters thread_function in this step (its start() is about to be
\* invoked, the job becomes STARTED); future k is handed to a worker thread
\* in this step.
Begins(k) == fstate[k] = "PENDING" /\ fstate'[k] = "RUNNING"
Taken(k) == unit[k] = "queued" /\ unit'[k] = "taken"

\* C12 as stated: for jobs i before j in the input, job i's unit begins
\* (becomes STARTED) no later than job j's, for every W and interleaving.
C12_Original ==
    [][\A k \in Futures :
          Begins(k) => \A j \in 1..(k - 1) : fstate[j] # "PENDING"]_vars

\* C12 as amended: work items are handed to the worker threads in submission
\* order for every W and interleaving, and with W = 1 the units also begin
\* in submission order; threads that each hold a work item may enter
\* thread_function in either order.
C12_FifoHandOver ==
    /\ [][\A k \in Futures :
            Taken(k) => \A j \in 1..(k - 1) : unit[j] # "queued"]_vars
    /\ [][max_workers = 1 =>
            \A k \in Futures :
               Begins(k) => \A j \in 1..(k - 1) : fstate[j] # "PENDING"]_vars

\* C12 witness: the second job has begun while the first, handed over before
\* it, has not yet entered thread_function.
C12_Witness ==
    /\ Len(allFutures) = 2
    /\ unit[1] = "taken"
    /\ fstate[2] = "RUNNING"

\* Future k's unit returns or raises in this step; a line is printed in this
\* step for a future that as_completed received from its waiter.
Completes(k) == fstate[k] = "RUNNING" /\ fstate'[k] = "FINISHED"
ReportsCompleted == Len(output') = Len(output) + 1 /\ finishedSet = {}
SubmissionOrder(lines) ==
    \A i, j \in 1..Len(lines) :
        i < j => FutureOf(lines[i].job) < FutureOf(lines[j].job)

\* C13 as stated: with W = 1 the results are reported in submission order
\* (the jobs run one at a time in submission order and complete in that
\* order).
C13_Original ==
    max_workers = 1 => SubmissionOrder(output)

\* C13 as amended: with W = 1 a unit begins only when every job submitted
\* before it is finished, so the jobs run one at a time and complete in
\* submission order; a result that as_completed receives after it began is
\* reported after the results of all jobs submitted earlier. Jobs that had
\* all completed before as_completed began are reported in any order.
C13_SequentialWithOneWorker ==
    /\ [](max_workers = 1 => Cardinality(StartedJobs) <= 1)
    /\ [][max_workers = 1 =>
            \A k \in Futures :
               (Begins(k) \/ Completes(k)) =>
                   \A j \in 1..(k - 1) : fstate[j] = "FINISHED"]_vars
    /\ [][(max_workers = 1 /\ ReportsCompleted) =>
            LET k == FutureOf(output'[Len(output')].job)
            IN \A j \in 1..(k - 1) : LinesOf(allFutures[j]) # {}]_vars

\* C13 witness: with one worker, both jobs had completed before as_completed
\* began and the second is the first to be reported.
C13_Witness ==
    /\ max_workers = 1
    /\ NumJobs = 2
    /\ Len(output) = 1
    /\ output[1].job = project_list[2]
    /\ finishedSet = {1}

\* C14: when every job takes exactly `duration` and start() takes no time,
\* the time from the beginning of the dispatch to its return is N * duration
\* with one worker (the jobs run back to back) and duration with at least as
\* many workers as the N >= 1 jobs (the jobs overlap): 10 and 2 for the five
\* jobs of duration 2.
C14_UniformTotalTime ==
    pc = "returned" =>
        /\ max_workers = 1 => now = NumJobs * duration
        /\ (max_workers >= NumJobs /\ NumJobs >= 1) => now = duration

\* C14 witness: five jobs of duration 2 on one worker have returned at time 10.
C14_Witness ==
    /\ pc = "returned"
    /\ max_workers = 1
    /\ NumJobs = 5
    /\ duration = 2
    /\ now = 10
    /\ Len(output) = 5

\* The future whose line is printed in this step, and the futures that
\* finished before it and have not been yielded yet.
Reports(b) ==
    /\ Len(output') = Len(output) + 1
    /\ b = FutureOf(output'[Len(output')].job)
FinishedBefore(b) ==
    {completed[i] : i \in {i \in 1..Len(completed) :
                              \E j \in (i + 1)..Len(completed) : completed[j] = b}}

\* C15 as stated: the results are reported in completion order: the result
\* reported is always that of the job that finished first among those not
\* reported yet, also when they had finished before the loop began.
C15_Original ==
    [][\A b \in Futures : Reports(b) => FinishedBefore(b) = {}]_vars

\* C15 as amended: a result is reported before that of a job that finished
\* earlier only if both had finished before as_completed began; a job that
\* finishes after as_completed began is reported after every job that
\* finished before it.
C15_CompletionOrderOnceCollecting ==
    [][\A b \in Futures :
          (Reports(b) /\ FinishedBefore(b) # {}) =>
              FinishedBefore(b) \cup {b} \subseteq finishedSet]_vars

\* C15 witness: the second job finished first, after as_completed began, and
\* is reported while the first is still running.
C15_Witness ==
    /\ Len(allFutures) = 2
    /\ Len(output) = 1
    /\ output[1].job = project_list[2]
    /\ fstate[1] = "RUNNING"
    /\ waiterInstalled
    /\ finishedSet = {}

\* C16: the results are streamed. A line is printed only for a job whose
\* unit has finished, and once a job's unit has finished its line is printed
\* whatever the other jobs do: the collector does not wait for the jobs that
\* are still pending or started, which may never finish.
C16_Streaming ==
    /\ [](\A i \in 1..Len(output) :
             fstate[FutureOf(output[i].job)] = "FINISHED")
    /\ \A k \in 1..MaxJobs :
          (k \in Futures /\ fstate[k] = "FINISHED")
              ~> (k \in Futures /\ LinesOf(allFutures[k]) # {})

\* C16 witness: the line of the first job is printed while the second job is
\* started and the dispatch has not returned.
C16_Witness ==
    /\ Len(allFutures) = 2
    /\ LinesOf(allFutures[1]) # {}
    /\ JobState(allFutures[2]) = "STARTED"
    /\ pc = "collect"

\* C17: once the dispatch of at least one job has returned, the output holds
\* an aggregate line whose counts are the numbers of jobs that succeeded and
\* that failed. (The cell prints one line per job and nothing else.)
C17_AggregateCount ==
    (pc = "returned" /\ NumJobs >= 1) =>
        \E i \in 1..Len(output) :
            /\ output[i].kind = "summary"
            /\ output[i].succeeded = Cardinality(SucceededFutures)
            /\ output[i].failed = Cardinality(FailedFutures)

\* start() of the job of future k has raised.
StartRaised(k) ==
    /\ fstate[k] = "FINISHED"
    /\ ~foutcome[k].ok
    /\ foutcome[k].exc \in StartErrors
StartReturned(k) ==
    unit[k] = "wait" \/ (unit[k] \in {"release", "done"} /\ ~StartRaised(k))

\* C18 as stated: start() and wait() are never invoked a second time, wait()
\* is invoked only after start() has returned, and when the dispatch returns
\* each has been invoked exactly once on every job.
C18_Original ==
    /\ \A k \in Futures :
          /\ calls[k].start <= 1
          /\ calls[k].wait <= 1
          /\ calls[k].wait = 1 => StartReturned(k)
    /\ pc = "returned" =>
          \A k \in Futures : calls[k].start = 1 /\ calls[k].wait = 1

\* C18 as amended: start() and wait() are never invoked a second time, wait()
\* is invoked only after start() has returned, and when the dispatch returns
\* start() has been invoked exactly once on every job and wait() exactly once
\* on every job whose start() returned, never on a job whose start() raised.
C18_StartOnceThenWait ==
    /\ \A k \in Futures :
          /\ calls[k].start <= 1
          /\ calls[k].wait <= 1
          /\ calls[k].wait = 1 => StartReturned(k)
          /\ StartRaised(k) => calls[k].wait = 0
    /\ pc = "returned" =>
          \A k \in Futures :
             /\ calls[k].start = 1
             /\ calls[k].wait = IF StartRaised(k) THEN 0 ELSE 1

\* C18 witness: the dispatch has returned; start() of the first job raised
\* and its wait() was not invoked, the second job had both invoked once.
C18_Witness ==
    /\ pc = "returned"
    /\ Len(allFutures) = 2
    /\ StartRaised(1)
    /\ calls[1] = [start |-> 1, wait |-> 0]
    /\ calls[2] = [start |-> 1, wait |-> 1]

\* C19: a job's state changes only from PENDING to STARTED and from STARTED
\* to SUCCEEDED or FAILED, never from PENDING to a terminal state, never
\* back, never out of a terminal state; and a job becomes STARTED only when
\* fewer than W other jobs are STARTED.
C19_JobStateMachine ==
    [][\A pr \in Projects :
          LET from == JobState(pr)
              to == JobState(pr)'
          IN from # to =>
                \/ /\ from = "PENDING"
                   /\ to = "STARTED"
                   /\ Cardinality(StartedJobs \ {pr}) < max_workers
                \/ /\ from = "STARTED"
                   /\ to \in {"SUCCEEDED", "FAILED"}]_vars

\* C19 witness: with one worker, the first job has gone through STARTED to
\* SUCCEEDED and the second has become STARTED after it.
C19_Witness ==
    /\ max_workers = 1
    /\ NumJobs = 2
    /\ JobState(project_list[1]) = "SUCCEEDED"
    /\ JobState(project_list[2]) = "STARTED"

\* start() of the job of future k raises in this step.
StartRaises(k) == ~StartRaised(k) /\ StartRaised(k)'
ReportedWithError(k) ==
    \E i \in LinesOf(allFutures[k]) :
        output[i].kind = "exception" /\ output[i].exc = foutcome[k].exc

\* C20 as stated: a job whose start() raises becomes FAILED without having
\* been STARTED (it is PENDING until then), its wait() is never invoked, and
\* it is reported with the error of start().
C20_Original ==
    /\ [][\A k \in Futures :
             StartRaises(k) => JobState(allFutures[k]) = "PENDING"]_vars
    /\ [](\A k \in Futures :
             StartRaised(k) =>
                 /\ calls[k].wait = 0
                 /\ Done => ReportedWithError(k))

\* C20 as amended: a job whose start() raises is STARTED while start() is in
\* progress on a worker and becomes FAILED from there; its wait() is never
\* invoked, and when the dispatch ends it has been reported with the error
\* of start().
C20_StartFailure ==
    /\ [][\A k \in Futures :
             StartRaises(k) =>
                 /\ JobState(allFutures[k]) = "STARTED"
                 /\ unit[k] = "start"
                 /\ JobState(allFutures[k])' = "FAILED"]_vars
    /\ [](\A k \in Futures :
             StartRaised(k) =>
                 /\ calls[k].wait = 0
                 /\ JobState(allFutures[k]) = "FAILED"
                 /\ Done => ReportedWithError(k))

\* C20 witness: the dispatch has returned with a job reported with the
\* error its start() raised, the other job having succeeded.
C20_Witness ==
    /\ pc = "returned"
    /\ Len(allFutures) = 2
    /\ StartRaised(2)
    /\ ReportedWithError(2)
    /\ foutcome[1].ok
    /\ calls[2].wait = 0

\* C21: there are no retries. A FAILED job stays FAILED, no project is
\* submitted twice and no finished future is queued again, start() is not
\* invoked a second time, and when the dispatch returns the number of units
\* submitted is len(jobs).
C21_NoRetries ==
    /\ [][\A pr \in Projects :
             JobState(pr) = "FAILED" => JobState(pr)' = "FAILED"]_vars
    /\ [](/\ Len(allFutures) <= NumJobs
          /\ \A j, k \in Futures : allFutures[j] = allFutures[k] => j = k
          /\ \A k \in FailedFutures :
                /\ calls[k].start = 1
                /\ \A i \in 1..Len(workQueue) : workQueue[i] # k
          /\ pc = "returned" => Len(allFutures) = NumJobs)

\* C21 witness: the dispatch of two jobs has returned with two units
\* submitted, the first of which failed.
C21_Witness ==
    /\ pc = "returned"
    /\ NumJobs = 2
    /\ Len(allFutures) = 2
    /\ 1 \in FailedFutures
    /\ calls[1].start = 1
    /\ 2 \in SucceededFutures

\* What the job of future k did: both calls returned, or one of them raised.
BothReturned(k) == calls[k].wait = 1 /\ endTime[k] # -1
OneRaised(k) ==
    \/ calls[k] = [start |-> 1, wait |-> 0] /\ unit[k] \in {"release", "done"}
    \/ calls[k].wait = 1 /\ endTime[k] = -1 /\ unit[k] \in {"release", "done"}

\* C22: every result has one of two forms and the form matches what the job
\* did: the line gives an elapsed time exactly when start() and wait() both
\* returned, and an error exactly when start() or wait() raised; no job has
\* lines of both forms, and a job whose calls both returned is never made a
\* failure.
C22_ResultMatchesJob ==
    /\ \A i \in 1..Len(output) :
          LET k == UnitOf(output[i].job)
          IN /\ output[i].kind \in {"finished", "exception"}
             /\ output[i].kind = "finished" <=> BothReturned(k)
             /\ output[i].kind = "exception" <=> OneRaised(k)
             /\ output[i].kind = "finished" => output[i].exc = "none"
             /\ output[i].kind = "exception" =>
                   output[i].exc \in StartErrors \cup WaitErrors
    /\ \A pr \in Projects :
          \A i, j \in LinesOf(pr) : output[i].kind = output[j].kind
    /\ \A k \in Futures :
          /\ ~(BothReturned(k) /\ OneRaised(k))
          /\ BothReturned(k) => fstate[k] = "FINISHED" /\ foutcome[k].ok

\* C22 witness: of two reported jobs, one has an elapsed time, its calls
\* having returned, and the other the error its wait() raised.
C22_Witness ==
    /\ Len(output) = 2
    /\ output[1].kind = "finished"
    /\ BothReturned(UnitOf(output[1].job))
    /\ output[2].kind = "exception"
    /\ output[2].exc = "RemoteTimeoutError"
    /\ calls[UnitOf(output[2].job)].wait = 1

\* The outcome of future k is written in this step; as_completed yields
\* future b, whose result the loop body reads, in this step.
WritesOutcome(k) == foutcome'[k] # foutcome[k]
Yields(b) ==
    \/ b \in finishedSet /\ b \notin finishedSet'
    \/ b \in pendingSet /\ b \notin pendingSet'

\* C23: there is no race on the outcomes. The outcome of a job is written
\* once, by the worker that is running its unit; the loop reads the outcome
\* of a future only when the future is finished, so that result() does not
\* block, and it reads that outcome as the worker wrote it; no future is
\* yielded twice, and when the dispatch returns every future has been read
\* once.
C23_NoRaceOnOutcomes ==
    /\ [][\A k \in Futures :
             WritesOutcome(k) =>
                 /\ unit[k] \in {"start", "wait"}
                 /\ unit'[k] = "release"
                 /\ fstate[k] = "RUNNING"
                 /\ foutcome[k] = NoOutcome]_vars
    /\ [][\A b \in Futures :
             Yields(b) =>
                 /\ fstate[b] = "FINISHED"
                 /\ unit[b] \in {"release", "done"}
                 /\ LinesOf(allFutures[b]) = {}
                 /\ b \notin finishedSet' \cup pendingSet'
                 /\ output' = Append(output,
                                     ReportLine(allFutures[b], foutcome[b]))]_vars
    /\ [](pc = "returned" =>
             \A k \in Futures : Cardinality(LinesOf(allFutures[k])) = 1)

\* C23 witness: the outcome of the second job has been read and printed
\* while the worker of the first job is still inside its remote call.
C23_Witness ==
    /\ Len(allFutures) = 2
    /\ unit[1] = "wait"
    /\ foutcome[1] = NoOutcome
    /\ fstate[2] = "FINISHED"
    /\ output = <<ReportLine(allFutures[2], foutcome[2])>>

\* The work items no thread has taken, and whether the next submit is about
\* to decide on a new thread.
Queued == {k \in Futures : unit[k] = "queued"}
SubmitEnabled == pc = "submit" /\ Len(allFutures) < NumJobs

C25_ElapsedSinceSubmission ==
    /\ \A j, k \in Futures :
          j < k => workItem[j].start_time <= workItem[k].start_time
    /\ \A k \in Futures :
          /\ workItem[k].start_time <= now
          /\ beginTime[k] # -1 => workItem[k].start_time <= beginTime[k]
    /\ \A i \in 1..Len(output) :
          output[i].kind = "finished" =>
              LET k == UnitOf(output[i].job)
                  inCalls == endTime[k] - beginTime[k]
                  inQueue == beginTime[k] - workItem[k].start_time
              IN /\ output[i].elapsed = endTime[k] - workItem[k].start_time
                 /\ output[i].elapsed = inCalls + inQueue
                 /\ inQueue >= 0
                 /\ output[i].elapsed >= inCalls

\* C25 witness: the second job was submitted after the first, waited in the
\* queue, and is reported with a duration longer than its calls took.
C25_Witness ==
    /\ Len(allFutures) = 2
    /\ workItem[1].start_time < workItem[2].start_time
    /\ workItem[2].start_time < beginTime[2]
    /\ \E i \in 1..Len(output) :
          /\ output[i].job = allFutures[2]
          /\ output[i].kind = "finished"
          /\ output[i].elapsed > endTime[2] - beginTime[2]

\* C26: the dispatching thread first submits, then collects. The projects
\* are submitted in the order of project_list; a submission is never blocked,
\* whatever the threads are doing; nothing is reported before all projects
\* are submitted; and a job that finished in the meantime is not lost: once
\* the loop has begun, every finished job without a line is among the futures
\* as_completed is still to yield.
C26_SubmitThenCollect ==
    /\ \A k \in Futures : allFutures[k] = project_list[k]
    /\ SubmitEnabled => ENABLED Submit
    /\ pc = "submit" => output = <<>> /\ ~waiterInstalled
    /\ output # <<>> => Len(allFutures) = NumJobs
    /\ pc = "collect" =>
          /\ Len(allFutures) = NumJobs
          /\ \A k \in Futures :
                (fstate[k] = "FINISHED" /\ LinesOf(allFutures[k]) = {}) =>
                    k \in finishedSet \cup Range(waiterFinished)

\* C26 witness: the first job has already finished while the second is
\* still to be submitted and every thread of the pool of one is taken.
C26_Witness ==
    /\ pc = "submit"
    /\ NumJobs = 2
    /\ Len(allFutures) = 1
    /\ fstate[1] = "FINISHED"
    /\ unit[1] = "release"
    /\ max_workers = 1

\* The submitted jobs whose unit has not begun, and those whose unit has.
PendingFutures == {k \in Futures : fstate[k] = "PENDING"}
BegunFutures == {k \in Futures : fstate[k] # "PENDING"}

\* C27: the pool is work-conserving. Whenever a submitted job is PENDING and
\* fewer than W jobs are STARTED, one more job becomes STARTED, the worker
\* threads being scheduled and no remote call having to return: a thread
\* that is free, or that a finished or failed job has freed, takes the next
\* queued work item.
C27_WorkConserving ==
    \A n \in 0..MaxJobs :
        (/\ Cardinality(BegunFutures) = n
         /\ PendingFutures # {}
         /\ Cardinality(StartedJobs) < max_workers)
            ~> (Cardinality(BegunFutures) > n)

\* C27 witness: with one worker, the thread that the failed first job freed
\* is running the second job.
C27_Witness ==
    /\ max_workers = 1
    /\ numThreads = 1
    /\ Len(allFutures) = 2
    /\ 1 \in FailedFutures
    /\ unit[1] = "done"
    /\ fstate[2] = "RUNNING"

\* C28: when an exception the handler does not catch leaves the collecting
\* loop, nothing is cancelled: no work item is removed from the queue except
\* by a worker that takes it, and when the exception leaves the dispatch
\* every submitted unit has begun, has had start() invoked and is finished.
\* Nothing is printed after the exception, so the jobs that were not
\* iterated before it are never reported.
C28_NothingCancelled ==
    /\ [][Interrupted => output' = output]_vars
    /\ [][\A k \in Futures :
             (unit[k] = "queued" /\ unit'[k] # "queued") =>
                 (unit'[k] = "taken" /\ fstate'[k] = "PENDING")]_vars
    /\ []((pc = "raised" /\ Interrupted) =>
             /\ Len(allFutures) = NumJobs
             /\ \A k \in Futures :
                   /\ fstate[k] = "FINISHED"
                   /\ calls[k].start = 1
                   /\ unit[k] = "done"
                   /\ k \notin Range(workQueue))

\* C28 witness: the exception has left a dispatch of two jobs on one thread
\* after the first line; the second job has run and succeeded and has no
\* line.
C28_Witness ==
    /\ pc = "raised"
    /\ Interrupted
    /\ max_workers = 1
    /\ Len(allFutures) = 2
    /\ Len(output) = 1
    /\ output[1].job = allFutures[1]
    /\ 2 \in SucceededFutures
    /\ LinesOf(allFutures[2]) = {}

\* The line kind and error that the behaviour b of a job calls for.
KindFor(b) == IF b = "none" THEN "finished" ELSE "exception"

\* C29: the outcome of a job is determined by the behaviour of that job
\* alone, whatever the pool size, the interleaving and the order of
\* completion, so that two dispatches over the same jobs agree on it: a
\* finished future holds, and a printed line shows, success exactly when the
\* job raises nothing and otherwise the error the job raises; when the
\* dispatch returns the jobs reported as failed are the jobs that raise.
C29_OutcomeByJobAlone ==
    /\ \A k \in Futures :
          fstate[k] = "FINISHED" =>
              /\ foutcome[k].ok <=> behaviour[k] = "none"
              /\ ~foutcome[k].ok => foutcome[k].exc = behaviour[k]
    /\ \A i \in 1..Len(output) :
          LET b == behaviour[FutureOf(output[i].job)]
          IN /\ output[i].kind = KindFor(b)
             /\ output[i].exc = b
    /\ pc = "returned" =>
          {output[i].job : i \in {j \in 1..Len(output) :
                                     output[j].kind = "exception"}}
              = {project_list[k] : k \in {j \in 1..NumJobs :
                                            behaviour[j] # "none"}}

\* C29 witness: on two workers the second job, which raises nothing, is
\* reported first and as finished, and the first with the error it raises.
C29_Witness ==
    /\ pc = "returned"
    /\ max_workers = 2
    /\ NumJobs = 2
    /\ behaviour = <<"RemoteExecutionError", "none">>
    /\ Len(output) = 2
    /\ output[1].job = project_list[2]
    /\ output[1].kind = "finished"
    /\ output[2].exc = "RemoteExecutionError"

\* C30: the dataset-creation step of the RSS notebook is not repeatable.
\* When a run reaches the creation of the archive with cnn_article.zip on
\* disk, it ends there with FileExistsError: cnn_article.txt has by then been
\* rewritten with the article of this run, the archive is left as it was,
\* and nothing is uploaded, no dataset being created before the step is run
\* again. A run other than the first gets past the creation of the archive
\* only if the archive has been removed.
C30_NotRepeatable ==
    /\ [][(rssPc = "open_zip" /\ cnn_article_zip # Absent /\ rssPc' # rssPc) =>
             /\ rssPc' = "raised"
             /\ rssEscaped' = "FileExistsError"
             /\ cnn_article_txt = article_text
             /\ UNCHANGED <<cnn_article_txt, cnn_article_zip, catalog,
                            cnn_dataset_id>>]_vars
    /\ [][(rssPc = "raised" /\ rssEscaped = "FileExistsError") =>
             /\ UNCHANGED <<catalog, cnn_dataset_id, cnn_article_txt>>
             /\ rssPc' \in {"raised", "fetch"}]_vars
    /\ []((rssEscaped = "FileExistsError") =>
             /\ rssPc = "raised"
             /\ cnn_article_txt = article_text
             /\ Len(catalog) < rssRuns)
    /\ []((rssPc \in {"zip_write", "upload"}) => Len(catalog) < rssRuns)

\* C30 witness: the second run, on another article, has failed at the
\* creation of the archive: the text file holds the new article, the archive
\* and the only dataset the old one.
C30_Witness ==
    /\ rssRuns = 2
    /\ rssPc = "raised"
    /\ rssEscaped = "FileExistsError"
    /\ article_text = "article B"
    /\ cnn_article_txt = "article B"
    /\ cnn_article_zip = <<"article A">>
    /\ catalog = <<<<"article A">>>>
    /\ cnn_dataset_id = 1

====
